---- MODULE Spec2Model ----
(***************************************************************************)
(* Model of src/src/json_placeholder.py: the retry decorator, the          *)
(* RequestApi dispatcher built on it, and JsonPlaceholderModifier.         *)
(*                                                                         *)
(* One synchronous thread runs one outermost call at a time.  The          *)
(* operation under the retry wrapper (a generic func, or one of the five   *)
(* RequestApi methods with its transport call) follows a script, plan,     *)
(* fixed when the call starts: plan[i] is what the i-th invocation does.   *)
(* Times are in milliseconds.                                              *)
(***************************************************************************)
EXTENDS Integers, Sequences, FiniteSets, TLC

VARIABLES
    pc,         \* "idle", "loop" (line 23), "sleep" (line 33), "unwind" (back in the modifier), "done"
    caller,     \* the JsonPlaceholderModifier method in progress, or "none"
    args,       \* its arguments
    wrapped,    \* the function under the retry wrapper: "func" or a RequestApi method
    request,    \* the (api_path, payload, headers) of a RequestApi call
    cfg,        \* the arguments of retry(...) for the wrapped function
    plan,       \* what each invocation of the underlying operation does
    retries,    \* local of func_with_retry
    delay,      \* local of func_with_retry
    entered,    \* entries into func_with_retry during the outermost call
    calls,      \* invocations of the underlying operation so far
    slept,      \* the time.sleep() calls so far, in order
    log,        \* the logger calls so far, in order
    wire,       \* the requests.<verb>() calls so far, in order
    result,     \* how the wrapped function ended
    outcome,    \* how the outermost call ended
    threads     \* calls of one decorated function made from several threads

main == <<pc, caller, args, wrapped, request, cfg, plan, retries, delay,
          entered, calls, slept, log, wire, result, outcome>>

vars == <<pc, caller, args, wrapped, request, cfg, plan, retries, delay,
          entered, calls, slept, log, wire, result, outcome, threads>>

----------------------------------------------------------------------------
(* Bounds of the model *)

MaxTries == 3
MaxWaitSteps == 2
MaxBackoff == 2
NumThreads == 2
MaxRuns == 2

(* Program constants *)

DefaultInitialWait == 500
DefaultBackoffFactor == 2
RequestApiTotalTries == 2

----------------------------------------------------------------------------
(* Python values *)

None == [type |-> "NoneType"]
Str(s) == [type |-> "str", s |-> s]
Dict(items) == [type |-> "dict", items |-> items]
Response(id, status_code, body) ==
    [type |-> "Response", id |-> id, status_code |-> status_code, body |-> body]

Return(value) == [tag |-> "return", value |-> value]
Raise(exc) == [tag |-> "raise", exc |-> exc]
Pending == [tag |-> "none"]

\* An exception object: its class, the invocation that raised it, and the
\* status code of the response it carries (0 when it carries none).
Exc(kind, at, status_code) == [kind |-> kind, at |-> at, status_code |-> status_code]

\* The base class of each exception class the program meets.
Base(cls) ==
    CASE cls = "HTTPError" -> "RequestException"
      [] cls = "ConnectionError" -> "RequestException"
      [] cls = "Timeout" -> "RequestException"
      [] cls = "RequestException" -> "Exception"
      [] cls = "KeyError" -> "Exception"
      [] cls = "AttributeError" -> "Exception"
      [] cls = "Exception" -> "BaseException"
      [] cls = "KeyboardInterrupt" -> "BaseException"
      [] OTHER -> "object"

RECURSIVE IsSubclass(_, _)
IsSubclass(cls, of) ==
    IF cls = of THEN TRUE
    ELSE IF cls = "object" THEN FALSE
    ELSE IsSubclass(Base(cls), of)

----------------------------------------------------------------------------
(* retry: the pieces of func_with_retry *)

\* `except exception_list`: a class or a tuple of classes, as a set
\* (faulty variant: a bare `except`, every error is caught)
CaughtAlways(kind, exception_list) == TRUE
Caught(kind, exception_list) ==
    \E cls \in exception_list : IsSubclass(kind, cls)

\* `while retries > 0`
\* (faulty variant: `while retries >= 0`)
LoopGuardNonNegative(r) == r >= 0
\* (faulty variant: `while retries`)
LoopGuardTruthy(r) == r # 0
LoopGuard(r) == r > 0

\* `if retries == 0`
\* (faulty variant: gives up while one attempt remains)
ExhaustedEarly(r) == r <= 1
\* (faulty variant: the raise is never reached)
ExhaustedNever(r) == FALSE
Exhausted(r) == r = 0

\* `delay *= backoff_factor`
\* (faulty variant: the delay is divided)
BackoffDivides(d, factor) == IF factor = 0 THEN d ELSE d \div factor
Backoff(d, factor) == d * factor

\* logger.error(...) / logger.warning(...): with logger=None the attribute
\* lookup raises AttributeError inside the except block.
LoggerWorks(lg) == lg # "None"

\* Where control goes when func_with_retry returns or raises.
FinishedPc == IF caller = "none" THEN "done" ELSE "unwind"

----------------------------------------------------------------------------
(* The operations under the wrapper *)

JsonObject(keys) ==
    [k \in keys |-> CASE k = "title" -> "t1" [] k = "body" -> "b1" [] OTHER -> "x"]

Posts == {JsonObject({}), JsonObject({"title"}), JsonObject({"title", "body"})}

StatusCodes == {200, 399, 400, 500, 599, 600}

FuncRaises == {"HTTPError", "ConnectionError", "KeyError"}
TransportRaises == {"ConnectionError", "Timeout"}

FuncBehaviours ==
    {[does |-> "return", value |-> "v"]}
        \cup {[does |-> "raise", kind |-> k] : k \in FuncRaises}

TransportBehaviours ==
    {[does |-> "respond", status_code |-> 200, body |-> b] : b \in Posts}
        \cup {[does |-> "respond", status_code |-> s, body |-> JsonObject({})] :
                 s \in StatusCodes \ {200}}
        \cup {[does |-> "raise", kind |-> k] : k \in TransportRaises}

\* The i-th invocation of a generic decorated function.
FuncBody(b, i) ==
    IF b.does = "return" THEN Return(Str(b.value)) ELSE Raise(Exc(b.kind, i, 0))

\* requests.Response.raise_for_status(): raises HTTPError for the client and
\* server error classes, 400..599, and for no other status code.
RaiseForStatus(status_code) == 400 <= status_code /\ status_code < 600

\* The body shared by RequestApi.get/post/put/patch/delete: the transport
\* call, then raise_for_status(); `except requests.HTTPError: raise` re-raises.
MethodBody(b, i) ==
    IF b.does = "raise" THEN Raise(Exc(b.kind, i, 0))
    ELSE IF RaiseForStatus(b.status_code)
         THEN Raise(Exc("HTTPError", i, b.status_code))
         ELSE Return(Response(i, b.status_code, b.body))

\* What the i-th invocation does: the script, whose last entry repeats.
PlanAt(i) == IF i \in DOMAIN plan THEN plan[i] ELSE plan[Len(plan)]

Invoke(i) == IF wrapped = "func" THEN FuncBody(PlanAt(i), i) ELSE MethodBody(PlanAt(i), i)

\* requests.<verb>(f'{base_url}{api_path}', json=payload, headers=headers)
BaseUrl == "http://jsonplaceholder.typicode.com"
\* (faulty variant: the headers are not passed on)
SentWithoutHeaders(verb, req) ==
    [verb |-> verb, url |-> BaseUrl \o req.api_path,
     json |-> req.payload, headers |-> None]
Sent(verb, req) ==
    [verb |-> verb, url |-> BaseUrl \o req.api_path,
     json |-> req.payload, headers |-> req.headers]

----------------------------------------------------------------------------
(* retry: func_with_retry as steps *)

LogEvent(level, by) == [level |-> level, by |-> by]

\* Line 22: every call starts from the decorator's arguments.
Enter(w, c, p) ==
    /\ wrapped' = w
    /\ cfg' = c
    /\ plan' = p
    /\ retries' = c.total_tries
    /\ delay' = c.initial_wait
    /\ entered' = entered + 1
    /\ calls' = 0
    /\ slept' = <<>>
    /\ log' = <<>>
    /\ wire' = <<>>
    /\ result' = Pending
    /\ outcome' = Pending
    /\ pc' = "loop"
    /\ UNCHANGED threads

\* Lines 23-32: one pass of the loop body, up to the sleep.
Attempt ==
    /\ pc = "loop"
    /\ LoopGuard(retries)
    /\ calls' = calls + 1
    /\ LET o == Invoke(calls + 1)
           noLogger == Raise(Exc("AttributeError", calls + 1, 0))
       IN  IF o.tag = "return"
           THEN /\ result' = o
                /\ pc' = FinishedPc
                /\ UNCHANGED <<retries, log>>
           ELSE IF Caught(o.exc.kind, cfg.exception_list)
           THEN /\ retries' = retries - 1
                /\ IF Exhausted(retries - 1)
                   THEN /\ pc' = FinishedPc
                        /\ IF LoggerWorks(cfg.logger)
                           THEN /\ log' = Append(log, LogEvent("error", "retry"))
                                /\ result' = o
                           ELSE /\ log' = log
                                /\ result' = noLogger
                   ELSE IF LoggerWorks(cfg.logger)
                        THEN /\ log' = Append(log, LogEvent("warning", "retry"))
                             /\ result' = result
                             /\ pc' = "sleep"
                        ELSE /\ log' = log
                             /\ result' = noLogger
                             /\ pc' = FinishedPc
           ELSE /\ result' = o
                /\ pc' = FinishedPc
                /\ UNCHANGED <<retries, log>>
    /\ UNCHANGED <<caller, args, wrapped, request, cfg, plan, delay, entered,
                   slept, outcome, threads>>

\* A generic decorated function is invoked.
FuncAttempt ==
    /\ wrapped = "func"
    /\ Attempt
    /\ UNCHANGED wire

\* A RequestApi method is invoked: it makes its transport call.
MethodAttempt(verb) ==
    /\ wrapped = verb
    /\ Attempt
    /\ wire' = Append(wire, Sent(verb, request))

Get == MethodAttempt("get")
Post == MethodAttempt("post")
Put == MethodAttempt("put")
Patch == MethodAttempt("patch")
Delete == MethodAttempt("delete")

\* Lines 33-34: time.sleep(delay); delay *= backoff_factor
Sleep ==
    /\ pc = "sleep"
    /\ slept' = Append(slept, delay)
    /\ delay' = Backoff(delay, cfg.backoff_factor)
    /\ pc' = "loop"
    /\ UNCHANGED <<caller, args, wrapped, request, cfg, plan, retries, entered,
                   calls, log, wire, result, outcome, threads>>

\* The loop ends without a return or a raise: the function returns None.
FallThrough ==
    /\ pc = "loop"
    /\ ~LoopGuard(retries)
    /\ result' = Return(None)
    /\ pc' = FinishedPc
    /\ UNCHANGED <<caller, args, wrapped, request, cfg, plan, retries, delay,
                   entered, calls, slept, log, wire, outcome, threads>>

----------------------------------------------------------------------------
(* retry: func_with_retry as a function of its arguments *)

\* Line 22: the frame of a call of func_with_retry decorated with args c.
Frame(c) ==
    [pc |-> "loop", retries |-> c.total_tries, delay |-> c.initial_wait,
     calls |-> 0, slept |-> <<>>, log |-> <<>>, result |-> Pending]

\* Lines 23-34: the next step of the frame fr; o is what the underlying
\* operation does if this step invokes it.
FrameStep(c, fr, o) ==
    IF fr.pc = "sleep"
    THEN [fr EXCEPT !.slept = Append(@, fr.delay),
                    !.delay = Backoff(@, c.backoff_factor),
                    !.pc = "loop"]
    ELSE IF ~LoopGuard(fr.retries)
    THEN [fr EXCEPT !.result = Return(None), !.pc = "done"]
    ELSE LET at == [fr EXCEPT !.calls = @ + 1]
             noLogger == Raise(Exc("AttributeError", fr.calls + 1, 0))
         IN  IF o.tag = "return"
             THEN [at EXCEPT !.result = o, !.pc = "done"]
             ELSE IF Caught(o.exc.kind, c.exception_list)
             THEN IF Exhausted(fr.retries - 1)
                  THEN IF LoggerWorks(c.logger)
                       THEN [at EXCEPT !.retries = @ - 1,
                                       !.log = Append(@, LogEvent("error", "retry")),
                                       !.result = o,
                                       !.pc = "done"]
                       ELSE [at EXCEPT !.retries = @ - 1,
                                       !.result = noLogger,
                                       !.pc = "done"]
                  ELSE IF LoggerWorks(c.logger)
                       THEN [at EXCEPT !.retries = @ - 1,
                                       !.log = Append(@, LogEvent("warning", "retry")),
                                       !.pc = "sleep"]
                       ELSE [at EXCEPT !.retries = @ - 1,
                                       !.result = noLogger,
                                       !.pc = "done"]
             ELSE [at EXCEPT !.result = o, !.pc = "done"]

\* The whole call, from the frame fr on, of the operation in progress.
RECURSIVE RunFrame(_, _)
RunFrame(c, fr) ==
    IF fr.pc = "done" THEN fr
    ELSE RunFrame(c, FrameStep(c, fr, Invoke(fr.calls + 1)))

\* The call in progress, had the wrapper been given the logger lg.
RunWith(lg) ==
    LET c == [cfg EXCEPT !.logger = lg] IN RunFrame(c, Frame(c))

----------------------------------------------------------------------------
(* Calls from the host program *)

Max(a, b) == IF a >= b THEN a ELSE b

ExceptionLists == {{"Exception"}, {"RequestException"}, {"HTTPError"}}

RetryArgs ==
    [exception_list : ExceptionLists,
     total_tries : -1 .. MaxTries,
     initial_wait : {k * DefaultInitialWait : k \in 0 .. MaxWaitSteps},
     backoff_factor : 0 .. MaxBackoff,
     logger : {"None", "logger"}]

\* @retry(Exception, total_tries=2, logger=logger)
RequestApiRetry ==
    [exception_list |-> {"Exception"},
     total_tries |-> RequestApiTotalTries,
     initial_wait |-> DefaultInitialWait,
     backoff_factor |-> DefaultBackoffFactor,
     logger |-> "logger"]

TransportPlans == [1 .. RequestApiTotalTries -> TransportBehaviours]

NoRequest == [api_path |-> "", payload |-> None, headers |-> None]
NoArgs == [none |-> TRUE]

\* A function decorated with @retry(...) is called.
FuncCall ==
    /\ pc = "idle"
    /\ caller' = "none"
    /\ args' = NoArgs
    /\ request' = NoRequest
    /\ \E c \in RetryArgs :
         \E p \in [1 .. Max(c.total_tries, 1) -> FuncBehaviours] :
            Enter("func", c, p)

Verbs == {"get", "post", "put", "patch", "delete"}

JsonContentType ==
    [k \in {"Content-type"} |-> "application/json; charset=UTF-8"]

Requests ==
    {[api_path |-> "/posts/1", payload |-> None, headers |-> None],
     [api_path |-> "/posts", payload |-> Dict(JsonObject({"title"})),
      headers |-> Dict(JsonContentType)]}

\* RequestApi.<verb>(api_path, payload, headers) is called directly.
RequestApiCall ==
    /\ pc = "idle"
    /\ caller' = "none"
    /\ args' = NoArgs
    /\ \E verb \in Verbs, req \in Requests, p \in TransportPlans :
         /\ request' = req
         /\ Enter(verb, RequestApiRetry, p)

\* The outermost call is over; the host program goes on.
Leave ==
    /\ pc = "done"
    /\ pc' = "idle"
    /\ caller' = "none"
    /\ args' = NoArgs
    /\ wrapped' = "none"
    /\ request' = NoRequest
    /\ cfg' = RequestApiRetry
    /\ plan' = <<>>
    /\ retries' = 0
    /\ delay' = 0
    /\ entered' = 0
    /\ calls' = 0
    /\ slept' = <<>>
    /\ log' = <<>>
    /\ wire' = <<>>
    /\ result' = Pending
    /\ outcome' = Pending
    /\ UNCHANGED threads

----------------------------------------------------------------------------
(* JsonPlaceholderModifier *)

PostNumbers == {"1", "99"}
FieldNames == {"title", "time"}
FieldValues == {"t1", "now"}

\* The except clauses of each method.
\* (faulty variant: the HTTPError clauses are missing)
ExceptClausesKeyErrorOnly(method) == {"KeyError"}
ExceptClauses(method) ==
    CASE method = "get_post_field" -> {"KeyError", "HTTPError"}
      [] method = "insert_new_field" -> {"HTTPError"}
      [] method = "create_new_post" -> {"HTTPError"}
      [] method = "delete_post" -> {"HTTPError"}

\* try: <raw> except <clauses>: logger.error(...)  -- and None is returned
TryExcept(method, raw) ==
    IF raw.tag = "raise" /\ Caught(raw.exc.kind, ExceptClauses(method))
    THEN Return(None)
    ELSE raw

Logged(method, raw) ==
    IF raw.tag = "raise" /\ Caught(raw.exc.kind, ExceptClauses(method))
    THEN Append(log, LogEvent("error", "modifier"))
    ELSE log

\* post.json()[field]
\* (faulty variant: the subscript is missing)
GetItemWholePost(post, field) == Return(Dict(post.body))
GetItem(post, field) ==
    IF field \in DOMAIN post.body
    THEN Return(Str(post.body[field]))
    ELSE Raise(Exc("KeyError", 0, 0))

\* post[field_key] = field_value
\* (faulty variant: the field is put in a new object)
SetItemFresh(items, key, value) == [k \in {key} |-> value]
SetItem(items, key, value) ==
    [k \in DOMAIN items \cup {key} |-> IF k = key THEN value ELSE items[k]]

\* The RequestApi method each modifier method calls.
\* (faulty variant: insert_new_field writes to the remote resource)
RequesterMethodWritesBack(method) ==
    CASE method = "get_post_field" -> "get"
      [] method = "insert_new_field" -> "put"
      [] method = "create_new_post" -> "post"
      [] method = "delete_post" -> "delete"
RequesterMethod(method) ==
    CASE method = "get_post_field" -> "get"
      [] method = "insert_new_field" -> "get"
      [] method = "create_new_post" -> "post"
      [] method = "delete_post" -> "delete"

ModifierCall(method, a, req) ==
    /\ pc = "idle"
    /\ caller' = method
    /\ args' = a
    /\ request' = req
    /\ \E p \in TransportPlans : Enter(RequesterMethod(method), RequestApiRetry, p)

ModifierReturn(method, raw) ==
    /\ pc = "unwind"
    /\ caller = method
    /\ outcome' = TryExcept(method, raw)
    /\ log' = Logged(method, raw)
    /\ pc' = "done"
    /\ UNCHANGED <<caller, args, wrapped, request, cfg, plan, retries, delay,
                   entered, calls, slept, wire, result, threads>>

get_post_field_call ==
    \E post_number \in PostNumbers, field \in FieldNames :
        ModifierCall("get_post_field",
                     [post_number |-> post_number, field |-> field],
                     [api_path |-> "/posts/" \o post_number,
                      payload |-> None, headers |-> None])

get_post_field_return ==
    ModifierReturn("get_post_field",
                   IF result.tag = "return"
                   THEN GetItem(result.value, args.field)
                   ELSE result)

insert_new_field_call ==
    \E post_number \in PostNumbers, field_key \in FieldNames,
       field_value \in FieldValues :
        ModifierCall("insert_new_field",
                     [post_number |-> post_number, field_key |-> field_key,
                      field_value |-> field_value],
                     [api_path |-> "/posts/" \o post_number,
                      payload |-> None, headers |-> None])

insert_new_field_return ==
    ModifierReturn("insert_new_field",
                   IF result.tag = "return"
                   THEN Return(Dict(SetItem(result.value.body, args.field_key,
                                            args.field_value)))
                   ELSE result)

create_new_post_call ==
    \E body \in Posts :
        ModifierCall("create_new_post",
                     [body |-> body],
                     [api_path |-> "/posts", payload |-> Dict(body),
                      headers |-> Dict(JsonContentType)])

create_new_post_return == ModifierReturn("create_new_post", result)

delete_post_call ==
    \E post_id \in PostNumbers :
        ModifierCall("delete_post",
                     [post_id |-> post_id],
                     [api_path |-> "/posts/" \o post_id,
                      payload |-> None, headers |-> None])

delete_post_return == ModifierReturn("delete_post", result)

----------------------------------------------------------------------------
(* One decorated function called from several threads *)

Threads == 1 .. NumThreads

\* The arguments the shared function was decorated with.
ThreadArgs ==
    {c \in RetryArgs : /\ c.exception_list = {"Exception"}
                       /\ c.logger = "logger"
                       /\ c.total_tries >= 0
                       /\ c.initial_wait > 0
                       /\ c.backoff_factor >= 1}

ThreadBehaviours ==
    {[does |-> "return", value |-> "v"], [does |-> "raise", kind |-> "HTTPError"]}

\* Where the retries and delay of thread t's call live: they are locals of
\* func_with_retry, so in the frame of that call.
\* (faulty variant: one pair of variables in the enclosing retry_decorator)
CellShared(t) == 1
Cell(t) == t

NoThreads ==
    [cfg |-> RequestApiRetry,
     ctl |-> [t \in Threads |->
                [pc |-> "idle", runs |-> 0, calls |-> 0, slept |-> <<>>,
                 log |-> <<>>, result |-> Pending]],
     cell |-> [k \in Threads |-> [retries |-> 0, delay |-> 0]]]

\* The frame thread t runs on.
FrameOf(t) ==
    [pc |-> threads.ctl[t].pc,
     retries |-> threads.cell[Cell(t)].retries,
     delay |-> threads.cell[Cell(t)].delay,
     calls |-> threads.ctl[t].calls,
     slept |-> threads.ctl[t].slept,
     log |-> threads.ctl[t].log,
     result |-> threads.ctl[t].result]

\* Thread t's frame becomes fr.
Store(t, fr, runs) ==
    /\ threads' =
         [threads EXCEPT
            !.ctl[t] = [pc |-> fr.pc, runs |-> runs, calls |-> fr.calls,
                        slept |-> fr.slept, log |-> fr.log, result |-> fr.result],
            !.cell[Cell(t)] = [retries |-> fr.retries, delay |-> fr.delay]]
    /\ UNCHANGED main

\* Thread t calls the decorated function.
ThreadCall(t) ==
    /\ threads.ctl[t].pc \in {"idle", "done"}
    /\ threads.ctl[t].runs < MaxRuns
    /\ Store(t, Frame(threads.cfg), threads.ctl[t].runs + 1)

\* Thread t invokes the underlying operation.
ThreadAttempt(t) ==
    /\ threads.ctl[t].pc = "loop"
    /\ LoopGuard(FrameOf(t).retries)
    /\ \E b \in ThreadBehaviours :
         Store(t,
               FrameStep(threads.cfg, FrameOf(t),
                         FuncBody(b, threads.ctl[t].calls + 1)),
               threads.ctl[t].runs)

\* Thread t sleeps.
ThreadSleep(t) ==
    /\ threads.ctl[t].pc = "sleep"
    /\ Store(t, FrameStep(threads.cfg, FrameOf(t), Pending), threads.ctl[t].runs)

\* Thread t leaves the loop.
ThreadFallThrough(t) ==
    /\ threads.ctl[t].pc = "loop"
    /\ ~LoopGuard(FrameOf(t).retries)
    /\ Store(t, FrameStep(threads.cfg, FrameOf(t), Pending), threads.ctl[t].runs)

----------------------------------------------------------------------------
(* The specification *)

Init ==
    /\ pc = "idle"
    /\ caller = "none"
    /\ args = NoArgs
    /\ wrapped = "none"
    /\ request = NoRequest
    /\ cfg = RequestApiRetry
    /\ plan = <<>>
    /\ retries = 0
    /\ delay = 0
    /\ entered = 0
    /\ calls = 0
    /\ slept = <<>>
    /\ log = <<>>
    /\ wire = <<>>
    /\ result = Pending
    /\ outcome = Pending
    /\ threads = NoThreads

Next ==
    \/ FuncCall
    \/ RequestApiCall
    \/ get_post_field_call
    \/ insert_new_field_call
    \/ create_new_post_call
    \/ delete_post_call
    \/ FuncAttempt
    \/ Get
    \/ Post
    \/ Put
    \/ Patch
    \/ Delete
    \/ Sleep
    \/ FallThrough
    \/ get_post_field_return
    \/ insert_new_field_return
    \/ create_new_post_return
    \/ delete_post_return
    \/ Leave

Spec == Init /\ [][Next]_vars

\* The calling thread is blocked in the call until it returns or raises: an
\* invocation of the underlying operation, a sleep and the exit from the
\* loop each complete.
Running == FuncAttempt \/ Get \/ Post \/ Put \/ Patch \/ Delete \/ Sleep \/ FallThrough

SpecLive == Spec /\ WF_vars(Running)

\* The host program decorates one function and calls it from its threads.
InitThreads ==
    /\ pc = "idle"
    /\ caller = "none"
    /\ args = NoArgs
    /\ wrapped = "none"
    /\ request = NoRequest
    /\ cfg = RequestApiRetry
    /\ plan = <<>>
    /\ retries = 0
    /\ delay = 0
    /\ entered = 0
    /\ calls = 0
    /\ slept = <<>>
    /\ log = <<>>
    /\ wire = <<>>
    /\ result = Pending
    /\ outcome = Pending
    /\ \E c \in ThreadArgs : threads = [NoThreads EXCEPT !.cfg = c]

NextThreads ==
    \E t \in Threads :
        \/ ThreadCall(t)
        \/ ThreadAttempt(t)
        \/ ThreadSleep(t)
        \/ ThreadFallThrough(t)

SpecThreads == InitThreads /\ [][NextThreads]_vars

----------------------------------------------------------------------------
(* Vocabulary of the properties *)

\* func_with_retry has returned or raised.
Finished == result.tag # "none"

\* The invocation of func_with_retry in progress is of a wrapped function.
Wrapping == wrapped # "none"

\* The error class matches the wrapper's exception_list.
Qualifies(kind) == \E cls \in cfg.exception_list : IsSubclass(kind, cls)

\* The i-th invocation of the underlying operation raises a qualifying error.
QualifyingFailure(i) == Invoke(i).tag = "raise" /\ Qualifies(Invoke(i).exc.kind)

\* The i-th invocation of the underlying operation raises another error.
OtherFailure(i) == Invoke(i).tag = "raise" /\ ~Qualifies(Invoke(i).exc.kind)

Succeeds(i) == Invoke(i).tag = "return"

RECURSIVE Pow(_, _)
Pow(b, n) == IF n = 0 THEN 1 ELSE b * Pow(b, n - 1)

----------------------------------------------------------------------------
(* The properties *)

\* C1: when every attempt raises a qualifying failure and total_tries >= 1,
\* the wrapped operation invokes the underlying operation exactly
\* total_tries times and then raises an error of the original kind.
C1_ExhaustionAfterTotalTries ==
    (/\ Wrapping
     /\ cfg.total_tries >= 1
     /\ \A i \in 1 .. cfg.total_tries : QualifyingFailure(i))
        => /\ calls <= cfg.total_tries
           /\ Finished =>
                /\ calls = cfg.total_tries
                /\ result.tag = "raise"
                /\ result.exc.kind \in
                      {Invoke(i).exc.kind : i \in 1 .. cfg.total_tries}

\* C2: when attempts 1..N-1 raise qualifying failures and attempt N succeeds
\* (1 <= N <= total_tries), the wrapped operation returns that result after
\* exactly N invocations and N-1 delays, the k-th being
\* initial_wait * backoff_factor^(k-1).
C2_RecoveryOnAttemptN ==
    \A N \in 1 .. cfg.total_tries :
        (/\ Wrapping
         /\ Finished
         /\ \A i \in 1 .. N - 1 : QualifyingFailure(i)
         /\ Succeeds(N))
            => /\ result = Invoke(N)
               /\ calls = N
               /\ Len(slept) = N - 1
               /\ \A k \in 1 .. N - 1 :
                     slept[k] = cfg.initial_wait * Pow(cfg.backoff_factor, k - 1)

\* C3: an error that does not match exception_list propagates from the
\* attempt that raised it: it is the last invocation, the call has ended
\* raising that very error, retries was not decremented for it and no delay
\* was waited for it.
C3_NonQualifyingPropagates ==
    \A i \in 1 .. calls :
        OtherFailure(i)
            => /\ i = calls
               /\ pc \in {"unwind", "done"}
               /\ result = Invoke(i)
               /\ retries = cfg.total_tries - (i - 1)
               /\ Len(slept) = i - 1
               /\ Len(log) = i - 1

C3_Witness ==
    /\ wrapped = "func"
    /\ calls = 2
    /\ OtherFailure(2)
    /\ result.tag = "raise"

C5_StatusClassification ==
    wrapped \in Verbs
        => /\ \A i \in 1 .. calls :
                PlanAt(i).does = "respond"
                    => IF PlanAt(i).status_code >= 400
                       THEN /\ Invoke(i).tag = "raise"
                            /\ Invoke(i).exc.kind = "HTTPError"
                       ELSE Invoke(i) = Return(Response(i, PlanAt(i).status_code,
                                                        PlanAt(i).body))
           /\ result.tag = "return" => result.value.status_code < 400

\* C6: when the RequestApi call raises HTTPError, the modifier method returns
\* None and raises nothing.
C6_HttpErrorBecomesNone ==
    (/\ caller # "none"
     /\ pc = "done"
     /\ result.tag = "raise"
     /\ result.exc.kind = "HTTPError")
        => outcome = Return(None)

C6_Witness ==
    /\ caller = "insert_new_field"
    /\ pc = "done"
    /\ result.tag = "raise"
    /\ result.exc.kind = "HTTPError"
    /\ calls = 2
    /\ outcome = Return(None)

\* C7: when the transport raises a non-HTTP error on every attempt, the
\* modifier method returns None and lets nothing escape.
C7_TransportErrorBecomesNone ==
    (/\ caller # "none"
     /\ pc = "done"
     /\ \A i \in 1 .. RequestApiTotalTries :
            plan[i].does = "raise" /\ plan[i].kind \in TransportRaises)
        => outcome = Return(None)

\* C8: after a successful GET, get_post_field returns the value under the
\* field when the body has the key, and None without raising when it has
\* not; the miss is not retried: RequestApi.get was entered once and no
\* transport call follows the one that succeeded.
C8_GetField ==
    (/\ caller = "get_post_field"
     /\ pc = "done"
     /\ result.tag = "return")
        => /\ IF args.field \in DOMAIN result.value.body
              THEN outcome = Return(Str(result.value.body[args.field]))
              ELSE outcome = Return(None)
           /\ entered = 1
           /\ Len(wire) = result.value.id
           /\ \A i \in 1 .. Len(wire) : wire[i].verb = "get"

C8_Witness ==
    /\ caller = "get_post_field"
    /\ pc = "done"
    /\ result.tag = "return"
    /\ DOMAIN result.value.body # {}
    /\ args.field \notin DOMAIN result.value.body
    /\ outcome = Return(None)

\* C9, as stated: after a successful GET, insert_new_field returns the
\* original object plus exactly one added key, field_key mapped to
\* field_value, every original key intact and unmodified.
C9_ExactlyOneAddedKey ==
    (/\ caller = "insert_new_field"
     /\ pc = "done"
     /\ result.tag = "return")
        => /\ outcome.tag = "return"
           /\ outcome.value.type = "dict"
           /\ LET orig == result.value.body
                  new == outcome.value.items
              IN  /\ DOMAIN new = DOMAIN orig \cup {args.field_key}
                  /\ Cardinality(DOMAIN new) = Cardinality(DOMAIN orig) + 1
                  /\ new[args.field_key] = args.field_value
                  /\ \A k \in DOMAIN orig : new[k] = orig[k]

\* C9, amended: the returned object has the original keys and field_key,
\* field_key mapped to field_value and every other original key unmodified;
\* it has exactly one key more than the original when field_key was not
\* already a key of it (when it was, its value is overwritten).
C9_AddOrOverwriteOneKey ==
    (/\ caller = "insert_new_field"
     /\ pc = "done"
     /\ result.tag = "return")
        => /\ outcome.tag = "return"
           /\ outcome.value.type = "dict"
           /\ LET orig == result.value.body
                  new == outcome.value.items
              IN  /\ DOMAIN new = DOMAIN orig \cup {args.field_key}
                  /\ new[args.field_key] = args.field_value
                  /\ \A k \in DOMAIN orig \ {args.field_key} : new[k] = orig[k]
                  /\ args.field_key \notin DOMAIN orig
                        => Cardinality(DOMAIN new) = Cardinality(DOMAIN orig) + 1

C9_Witness ==
    /\ caller = "insert_new_field"
    /\ pc = "done"
    /\ result.tag = "return"
    /\ outcome.tag = "return"
    /\ DOMAIN result.value.body = {"title", "body"}
    /\ args.field_key = "title"
    /\ args.field_value # result.value.body["title"]

\* C10: get_post_field and insert_new_field issue only GET transport calls,
\* create_new_post only POST calls to /posts, delete_post only DELETE calls.
C10_ModifierVerbs ==
    \A i \in 1 .. Len(wire) :
        /\ caller \in {"get_post_field", "insert_new_field"}
            => /\ wire[i].verb = "get"
               /\ wire[i].url = BaseUrl \o "/posts/" \o args.post_number
        /\ caller = "create_new_post"
            => /\ wire[i].verb = "post"
               /\ wire[i].url = BaseUrl \o "/posts"
        /\ caller = "delete_post"
            => /\ wire[i].verb = "delete"
               /\ wire[i].url = BaseUrl \o "/posts/" \o args.post_id

C10_Witness ==
    /\ caller = "insert_new_field"
    /\ pc = "done"
    /\ outcome.tag = "return"
    /\ outcome.value.type = "dict"
    /\ Len(wire) = 2

\* C11: after a successful RequestApi call, create_new_post returns the very
\* response of a POST to /posts that carried the caller's body and the JSON
\* content-type header, and delete_post the very response of the DELETE of
\* /posts/<post_id>.
C11_CreateDeleteRawResponse ==
    (/\ caller \in {"create_new_post", "delete_post"}
     /\ pc = "done"
     /\ result.tag = "return")
        => /\ outcome = result
           /\ outcome.value.type = "Response"
           /\ outcome.value.id = Len(wire)
           /\ outcome.value.status_code = plan[Len(wire)].status_code
           /\ outcome.value.body = plan[Len(wire)].body
           /\ wire[Len(wire)] =
                IF caller = "create_new_post"
                THEN [verb |-> "post",
                      url |-> "http://jsonplaceholder.typicode.com/posts",
                      json |-> Dict(args.body),
                      headers |-> Dict([k \in {"Content-type"} |->
                                          "application/json; charset=UTF-8"])]
                ELSE [verb |-> "delete",
                      url |-> "http://jsonplaceholder.typicode.com/posts/"
                                \o args.post_id,
                      json |-> None,
                      headers |-> None]

C11_Witness ==
    /\ caller = "create_new_post"
    /\ pc = "done"
    /\ DOMAIN args.body = {"title", "body"}
    /\ result.tag = "return"
    /\ outcome = result
    /\ Len(wire) = 2

\* The arguments of retry(...) for which the retry state is well behaved.
SaneRetryArgs ==
    /\ cfg.total_tries >= 0
    /\ cfg.initial_wait >= 0
    /\ cfg.backoff_factor >= 1

\* One step inside an invocation of func_with_retry keeps retries from
\* growing, takes exactly 1 from it on a qualifying failure and nothing
\* otherwise, and keeps delay from shrinking; retries is never negative.
RetryStateStep ==
    (Wrapping' /\ pc' # "idle")
        => /\ retries' >= 0
           /\ pc \in {"loop", "sleep"}
                => /\ retries' <= retries
                   /\ delay' >= delay
                   /\ retries' = IF calls' = calls + 1 /\ QualifyingFailure(calls + 1)
                                 THEN retries - 1
                                 ELSE retries

\* C12, as stated: for every total_tries, initial_wait and backoff_factor, the
\* remaining-attempts counter is never negative, never increases (minus 1 on
\* each qualifying failure) and the delay never decreases.
C12_RetryStateAnyArgs == [][RetryStateStep]_vars

\* C12, amended: the same, for total_tries >= 0, initial_wait >= 0 and
\* backoff_factor >= 1.
C12_RetryStateSaneArgs == [][SaneRetryArgs' => RetryStateStep]_vars

C12_Witness ==
    /\ wrapped = "func"
    /\ SaneRetryArgs
    /\ cfg.backoff_factor = 2
    /\ cfg.initial_wait > 0
    /\ Len(slept) = 2
    /\ slept[2] > slept[1]
    /\ delay > slept[2]
    /\ retries = 1
    /\ pc = "loop"

\* C14: when all total_tries attempts raise qualifying errors, the error that
\* reaches the caller is the one the final attempt raised.
C14_LastFailureReraised ==
    (/\ Wrapping
     /\ Finished
     /\ cfg.total_tries >= 1
     /\ \A i \in 1 .. cfg.total_tries : QualifyingFailure(i))
        => /\ result.tag = "raise"
           /\ result.exc = Invoke(cfg.total_tries).exc
           /\ result.exc.at = cfg.total_tries

\* The logger calls made by func_with_retry.
RetryLog == SelectSeq(log, LAMBDA e : e.by = "retry")

\* C16: with a logger configured, one warning is logged per delay waited and
\* one error on final failure: success on attempt N logs N-1 warnings and no
\* error, exhaustion logs total_tries-1 warnings and then one error.
C16_RetryLogEvents ==
    (Wrapping /\ cfg.logger # "None")
        => /\ \A k \in 1 .. Len(RetryLog) :
                RetryLog[k].level = "warning" \/ (k = Len(RetryLog) /\ Finished)
           /\ Len(SelectSeq(RetryLog, LAMBDA e : e.level = "warning"))
                = Len(slept) + (IF pc = "sleep" THEN 1 ELSE 0)
           /\ \A N \in 1 .. cfg.total_tries :
                (/\ Finished
                 /\ \A i \in 1 .. N - 1 : QualifyingFailure(i)
                 /\ Succeeds(N))
                    => RetryLog = [k \in 1 .. N - 1 |-> LogEvent("warning", "retry")]
           /\ (/\ Finished
               /\ cfg.total_tries >= 1
               /\ \A i \in 1 .. cfg.total_tries : QualifyingFailure(i))
                    => RetryLog = [k \in 1 .. cfg.total_tries |->
                                     IF k < cfg.total_tries
                                     THEN LogEvent("warning", "retry")
                                     ELSE LogEvent("error", "retry")]

C16_Witness ==
    /\ wrapped = "func"
    /\ cfg.logger # "None"
    /\ cfg.total_tries = 3
    /\ pc = "done"
    /\ result.tag = "raise"
    /\ calls = 3
    /\ Len(RetryLog) = 3
    /\ RetryLog[3].level = "error"

\* C17: when all total_tries >= 1 attempts have failed with qualifying
\* failures, exactly total_tries - 1 delays were waited and the call has
\* raised with the last failed attempt, no wait in between; no call ever
\* waits more than total_tries - 1 delays, so none with total_tries = 1.
C17_NoDelayAfterFinalFailure ==
    Wrapping
        => /\ Len(slept) <= Max(cfg.total_tries - 1, 0)
           /\ Len(slept) <= calls
           /\ (/\ cfg.total_tries >= 1
               /\ calls = cfg.total_tries
               /\ \A i \in 1 .. calls : QualifyingFailure(i))
                    => /\ Len(slept) = cfg.total_tries - 1
                       /\ pc \in {"unwind", "done"}
                       /\ result.tag = "raise"
                       /\ result.exc.at = calls

C17_Witness ==
    /\ wrapped = "func"
    /\ cfg.total_tries = 3
    /\ cfg.initial_wait > 0
    /\ calls = 3
    /\ \A i \in 1 .. 3 : QualifyingFailure(i)
    /\ Len(slept) = 2
    /\ result.tag = "raise"

\* C18: with total_tries <= 0 the wrapped operation never invokes the
\* underlying operation, waits no delay, raises nothing and returns None.
C18_NoBudget ==
    (Wrapping /\ cfg.total_tries <= 0)
        => /\ calls = 0
           /\ slept = <<>>
           /\ log = <<>>
           /\ pc \in {"loop", "done"}
           /\ pc = "done" => result = Return(None)
           /\ pc = "loop" => result = Pending

C18_Witness ==
    /\ wrapped = "func"
    /\ cfg.total_tries = -1
    /\ plan[1].does = "raise"
    /\ pc = "done"
    /\ result = Return(None)

\* C19: every call of a wrapped operation returns or raises, provided each
\* invocation of the underlying operation does; it never invokes the
\* underlying operation more than total_tries times, nor again after an
\* invocation has succeeded.
C19_TerminatesWithinBudget ==
    /\ [](Wrapping => /\ calls <= Max(cfg.total_tries, 0)
                      /\ \A i \in 1 .. calls - 1 : ~Succeeds(i))
    /\ (pc \in {"loop", "sleep"}) ~> Finished

C19_Witness ==
    /\ wrapped = "func"
    /\ cfg.total_tries = 3
    /\ calls = 3
    /\ Succeeds(3)
    /\ result = Invoke(3)

\* The steps of func_with_retry and the function RunWith describe the same
\* call.
RunWithAgrees ==
    (Wrapping /\ Finished)
        => LET fr == RunWith(cfg.logger)
           IN  /\ fr.retries = retries
               /\ fr.delay = delay
               /\ fr.calls = calls
               /\ fr.slept = slept
               /\ fr.log = RetryLog
               /\ fr.result = result

Loggers == {"None", "logger"}

\* C13: whatever logger the wrapper was given, None included, the call makes
\* the same number of invocations, waits the same delays and ends with the
\* same result or the same kind of error.
C13_LoggerDoesNotAffectBehaviour ==
    (Wrapping /\ Finished)
        => \A lg \in Loggers :
             LET fr == RunWith(lg)
             IN  /\ fr.calls = calls
                 /\ fr.slept = slept
                 /\ fr.result.tag = result.tag
                 /\ result.tag = "return" => fr.result.value = result.value
                 /\ result.tag = "raise" => fr.result.exc.kind = result.exc.kind

\* The qualifying failures thread t's call has met: all its invocations
\* but the one, if any, whose result it returned.
ThreadFailures(t) ==
    threads.ctl[t].calls
        - (IF threads.ctl[t].result = Return(Str("v")) THEN 1 ELSE 0)

\* C15: every call starts with retries = total_tries and delay =
\* initial_wait whatever happened before, and calls running interleaved in
\* separate threads do not touch each other's retry state: each call's
\* retries is total_tries minus its own failures, its delay is initial_wait
\* times backoff_factor to the number of its own sleeps, and a call that
\* raises has made all total_tries attempts.
C15_IndependentRetryState ==
    \A t \in Threads :
        threads.ctl[t].pc # "idle"
            => /\ FrameOf(t).retries = threads.cfg.total_tries - ThreadFailures(t)
               /\ FrameOf(t).delay =
                    threads.cfg.initial_wait
                        * Pow(threads.cfg.backoff_factor, Len(threads.ctl[t].slept))
               /\ threads.ctl[t].calls = 0
                    => /\ FrameOf(t).retries = threads.cfg.total_tries
                       /\ FrameOf(t).delay = threads.cfg.initial_wait
               /\ threads.ctl[t].result.tag = "raise"
                    => /\ threads.ctl[t].calls = threads.cfg.total_tries
                       /\ Len(threads.ctl[t].slept) = threads.cfg.total_tries - 1

C15_Witness ==
    /\ threads.cfg.total_tries = 3
    /\ threads.cfg.backoff_factor = 2
    /\ threads.ctl[1].runs = 2
    /\ threads.ctl[1].pc = "loop"
    /\ threads.ctl[1].calls = 0
    /\ threads.ctl[2].pc = "sleep"
    /\ threads.ctl[2].calls = 2
    /\ FrameOf(1).retries = 3
    /\ FrameOf(2).retries = 1
    /\ FrameOf(2).delay > FrameOf(1).delay

====
